---- MODULE Spec2Model ----
(***************************************************************************)
(* The playback manager of the image viewer (src/src/playback_manager.rs): *)
(* the playback state machine, the pending load request, the playback      *)
(* clock and the per-tick algorithm update_image, together with the image  *)
(* cache and the window it drives.                                         *)
(***************************************************************************)
EXTENDS Integers, Sequences, FiniteSets, TLC

VARIABLES
    playback_state,                    \* PlaybackManager.playback_state
    since_playback_start,              \* PlaybackManager.playback_start_time, as the time elapsed since that instant
    frame_count_since_playback_start,  \* PlaybackManager.frame_count_since_playback_start
    load_request,                      \* PlaybackManager.load_request
    should_sleep,                      \* PlaybackManager.should_sleep
    image_texture,                     \* PlaybackManager.image_texture (<<>> is None, <<t>> is Some(t))
    image_cache,                       \* PlaybackManager.image_cache: directory size and current position
    window_title,                      \* the title of the window update_image is given
    panicked,                          \* the thread calling the manager has panicked
    load_history,                      \* outcome of the most recently attempted load
    last_requested,                    \* the request of the most recent request_load call not yet followed by a tick
    last                               \* the most recent operation and what it did

vars == <<playback_state, since_playback_start, frame_count_since_playback_start,
          load_request, should_sleep, image_texture, image_cache, window_title,
          panicked, load_history, last_requested, last>>

(***************************************************************************)
(* Bounds of the model.                                                    *)
(***************************************************************************)
\* the fine clock covers this many frame intervals
MaxFrames == 2
\* the coarse clock covers this many units of 2^30 frame intervals
MaxBig == 2
\* the directory holds at most this many files
MaxDir == 2

(***************************************************************************)
(* Numbers wider than TLC's 32-bit integers.  A frame count (u64) is a    *)
(* record [big, n] standing for big * 2^30 + n with 0 <= n < 2^30; a       *)
(* nanosecond count is a record [big, ns] standing for                     *)
(* big * 2^30 * frame_delta_time_nanos + ns.                               *)
(***************************************************************************)
BigFrames == 2^30

Wide(b, k) == [big |-> b, n |-> k]

WideZero == Wide(0, 0)

WideAdd(a, b) ==
    IF a.n + b.n >= BigFrames
    THEN Wide(a.big + b.big + 1, a.n + b.n - BigFrames)
    ELSE Wide(a.big + b.big, a.n + b.n)

\* a - b; the result has big < 0 exactly when b > a
WideSub(a, b) ==
    IF a.n >= b.n
    THEN Wide(a.big - b.big, a.n - b.n)
    ELSE Wide(a.big - b.big - 1, a.n - b.n + BigFrames)

WidePositive(a) == a.big > 0 \/ (a.big = 0 /\ a.n > 0)

\* `x as i32` of a u64: the low 32 bits, read as two's complement
AsI32(a) ==
    LET h == a.big % 4
    IN  (IF h >= 2 THEN h - 4 ELSE h) * BigFrames + a.n

(***************************************************************************)
(* Constants of update_image.                                              *)
(***************************************************************************)
framerate == 25

NANOS_PER_SEC == 1000000000

frame_delta_time_nanos == NANOS_PER_SEC \div framerate

\* (frame_delta_time_nanos as f32 * 0.8f32) as u64: 40,000,000 is exact in
\* f32, the product 32,000,000.47... rounds to the f32 32,000,000
BUISY_WAIT_TRESHOLD_NANOS == (frame_delta_time_nanos * 8) \div 10

(***************************************************************************)
(* LoadRequest and PlaybackState.                                          *)
(***************************************************************************)
Request(k, p, c) == [kind |-> k, path |-> p, count |-> c]

LoadRequestNone == Request("None", <<>>, 0)
LoadNext == Request("LoadNext", <<>>, 0)
LoadPrevious == Request("LoadPrevious", <<>>, 0)
LoadSpecific(p) == Request("LoadSpecific", p, 0)
Jump(c) == Request("Jump", <<>>, c)

PlaybackStates == {"Paused", "Forward"}

(***************************************************************************)
(* The file system and the image cache.  A path is the sequence of its     *)
(* components, the root being <<>>; the directory lists the files          *)
(* FileNameAt(1) .. FileNameAt(size).                                      *)
(***************************************************************************)
\* a name that is not valid Unicode
NonUnicodeName == "b\\xFF.png"

FileNameAt(i) == IF i = 2 THEN NonUnicodeName ELSE "f" \o ToString(i) \o ".png"

FilePathAt(i) == <<"dir", FileNameAt(i)>>

\* Path::file_name: None for the root and for a path ending in ".."
PathFileName(p) ==
    IF p = <<>> \/ p[Len(p)] = ".." THEN <<>> ELSE <<p[Len(p)]>>

\* OsStr::to_str: None unless the name is valid Unicode
OsStrToStr(name) == IF name = NonUnicodeName THEN <<>> ELSE <<name>>

Cache(s, c) == [size |-> s, current |-> c]

\* the result of a load: Ok((texture, filename)) or Err
LoadOk(name) == [ok |-> TRUE, texture |-> name, filename |-> name]
LoadErr == [ok |-> FALSE, texture |-> "", filename |-> ""]

\* position after a jump of k with wraparound; nothing moves in an empty directory
CacheJumpTo(cache, k) ==
    IF cache.size = 0 THEN cache
    ELSE Cache(cache.size, (cache.current + k) % cache.size)

\* resolving the entry at the current position: an empty directory or a failed
\* decode or upload is an error
CacheResolve(cache, decoded) ==
    IF cache.size = 0 \/ ~decoded THEN LoadErr
    ELSE LoadOk(FileNameAt(cache.current + 1))

\* index of path p in the listing, 0 when it is not listed
CacheIndexOf(cache, p) ==
    IF \E i \in 1..cache.size : FilePathAt(i) = p
    THEN CHOOSE i \in 1..cache.size : FilePathAt(i) = p
    ELSE 0

\* load_next, load_prev, load_jump and load_specific: the cache afterwards and the result
CacheLoadJump(cache, k, decoded) ==
    LET c == CacheJumpTo(cache, k)
    IN  [cache |-> c, result |-> CacheResolve(c, decoded)]

CacheLoadSpecific(cache, p, decoded) ==
    LET i == CacheIndexOf(cache, p)
    IN  IF i = 0 THEN [cache |-> cache, result |-> LoadErr]
        ELSE LET c == Cache(cache.size, i - 1)
             IN  [cache |-> c, result |-> CacheResolve(c, decoded)]

(***************************************************************************)
(* The clock.  The program reads the monotonic clock in two places only:   *)
(* Instant::now() stored in playback_start_time, and                       *)
(* playback_start_time.elapsed().  The state keeps the second, the time    *)
(* elapsed since the stored instant: storing Instant::now() makes it zero, *)
(* and the passing of time increases it.                                   *)
(***************************************************************************)
Time(b, k) == [big |-> b, ns |-> k]

\* the clock is sampled at a frame boundary, at the busy-wait threshold and just after it
FrameOffsets == {0, 10000000, BUISY_WAIT_TRESHOLD_NANOS, BUISY_WAIT_TRESHOLD_NANOS + 1}

\* the last fine sample, half a frame interval after a frame boundary
MaxNanos == MaxFrames * frame_delta_time_nanos + frame_delta_time_nanos \div 2

FineNanos ==
    {f * frame_delta_time_nanos + o : f \in 0..(MaxFrames - 1), o \in FrameOffsets}
        \cup {MaxNanos}

TimePoints ==
    {Time(0, k) : k \in FineNanos} \cup {Time(b, MaxNanos) : b \in 1..MaxBig}

Later(t, u) == u.big > t.big \/ (u.big = t.big /\ u.ns > t.ns)

(***************************************************************************)
(* What the most recent call of update_image did, kept for the properties  *)
(* until the next operation or clock step: state is the playback state it  *)
(* ran in, taken the request it took, calls the calls it made on the image *)
(* cache and titles the titles it set, both in order; texture and filename *)
(* are what a successful load returned; drain_failed tells that            *)
(* process_prefetched returned an error; returned is FALSE when the call   *)
(* panicked.  NoTick stands for any other step.                            *)
(***************************************************************************)
Call(f, p, c) == [fn |-> f, path |-> p, count |-> c]

Tick(name, state) ==
    [op |-> name, state |-> state, taken |-> LoadRequestNone, read_clock |-> FALSE,
     elapsed_nanos |-> Time(0, 0), count_before |-> WideZero, frame_step |-> WideZero,
     request |-> LoadRequestNone, calls |-> <<>>, result |-> "none", texture |-> <<>>,
     filename |-> <<>>, titles |-> <<>>, drain_failed |-> FALSE, returned |-> TRUE]

NoTick == Tick("none", "Paused")

(***************************************************************************)
(* PlaybackManager::new                                                    *)
(***************************************************************************)
Init ==
    /\ playback_state = "Paused"
    /\ since_playback_start = Time(0, 0)
    /\ frame_count_since_playback_start = WideZero
    /\ load_request = LoadRequestNone
    /\ should_sleep = TRUE
    /\ image_texture = <<>>
    /\ image_cache \in {Cache(s, 0) : s \in 0..MaxDir}
    /\ window_title = ""
    /\ panicked = FALSE
    /\ load_history = "never"
    /\ last_requested = LoadRequestNone
    /\ last = NoTick

(***************************************************************************)
(* The environment: time passes.                                           *)
(***************************************************************************)
ClockAdvance ==
    /\ ~panicked
    /\ \E t \in TimePoints : Later(since_playback_start, t) /\ since_playback_start' = t
    /\ last' = NoTick
    /\ UNCHANGED <<playback_state, frame_count_since_playback_start,
                   load_request, should_sleep, image_texture, image_cache, window_title,
                   panicked, load_history, last_requested>>

(***************************************************************************)
(* start_playback_forward, pause_playback, request_load, update_directory  *)
(***************************************************************************)
\* a start that keeps the frame counter
StartKeepsFrameCount ==
    /\ ~panicked
    /\ since_playback_start' = Time(0, 0)
    /\ playback_state' = "Forward"
    /\ last' = NoTick
    /\ UNCHANGED <<frame_count_since_playback_start, load_request, should_sleep,
                   image_texture, image_cache, window_title, panicked, load_history,
                   last_requested>>

StartPlaybackForward ==
    /\ ~panicked
    /\ since_playback_start' = Time(0, 0)
    /\ frame_count_since_playback_start' = WideZero
    /\ playback_state' = "Forward"
    /\ last' = NoTick
    /\ UNCHANGED <<load_request, should_sleep, image_texture, image_cache, window_title,
                   panicked, load_history, last_requested>>

\* a pause that toggles
PauseToggles ==
    /\ ~panicked
    /\ playback_state' = IF playback_state = "Paused" THEN "Forward" ELSE "Paused"
    /\ last' = NoTick
    /\ UNCHANGED <<since_playback_start, frame_count_since_playback_start, load_request,
                   should_sleep, image_texture, image_cache, window_title, panicked,
                   load_history, last_requested>>

PausePlayback ==
    /\ ~panicked
    /\ playback_state' = "Paused"
    /\ last' = NoTick
    /\ UNCHANGED <<since_playback_start, frame_count_since_playback_start, load_request,
                   should_sleep, image_texture, image_cache, window_title, panicked,
                   load_history, last_requested>>

\* the requests a caller issues
Requests ==
    {LoadRequestNone, LoadNext, LoadPrevious, LoadSpecific(FilePathAt(1)),
     LoadSpecific(<<>>), Jump(2)}

\* a request that does not replace a pending one
RequestLoadKeepsPending(request) ==
    /\ ~panicked
    /\ load_request' = IF load_request = LoadRequestNone THEN request ELSE load_request
    /\ last_requested' = request
    /\ last' = NoTick
    /\ UNCHANGED <<playback_state, since_playback_start, frame_count_since_playback_start,
                   should_sleep, image_texture, image_cache, window_title, panicked,
                   load_history>>

RequestLoad(request) ==
    /\ ~panicked
    /\ load_request' = request
    /\ last_requested' = request
    /\ last' = NoTick
    /\ UNCHANGED <<playback_state, since_playback_start, frame_count_since_playback_start,
                   should_sleep, image_texture, image_cache, window_title, panicked,
                   load_history>>

\* ImageCache::update_directory: the listing is read again; the position is kept
\* when the current file is still listed and is the first entry otherwise
CacheUpdateDirectory(cache, size) ==
    Cache(size, IF cache.current < size THEN cache.current ELSE 0)

UpdateDirectory(size, readable) ==
    /\ ~panicked
    /\ image_cache' = IF readable THEN CacheUpdateDirectory(image_cache, size) ELSE image_cache
    /\ last' = NoTick
    /\ UNCHANGED <<playback_state, since_playback_start, frame_count_since_playback_start,
                   load_request, should_sleep, image_texture, window_title, panicked,
                   load_history, last_requested>>

(***************************************************************************)
(* update_image, step by step.                                             *)
(***************************************************************************)
\* the swap without its effect on the field
SwapLeavesRequest(request) == request

\* mem::swap(&mut self.load_request, &mut load_request): what stays in the field
SwapLoadRequest(request) == LoadRequestNone

\* the clock evaluated in every tick of a running playback
ClockWhenPlaying(state, request) == state # "Paused"

\* if Paused .. else if load_request == None: whether the tick evaluates the clock
EvaluatesClock(state, request) == state # "Paused" /\ request = LoadRequestNone

\* elapsed.as_secs() * NANOS_PER_SEC + elapsed.subsec_nanos(): the nanoseconds of a
\* duration d, exact below 2^64 ns
ElapsedNanos(d) == [big |-> d.big, ns |-> d.ns]

\* elapsed_nanos / frame_delta_time_nanos
TargetFrame(elapsed_nanos) ==
    Wide(elapsed_nanos.big, elapsed_nanos.ns \div frame_delta_time_nanos)

FrameStep(elapsed_nanos, count) == WideSub(TargetFrame(elapsed_nanos), count)

\* elapsed_nanos % frame_delta_time_nanos
NanosSinceLast(elapsed_nanos) == elapsed_nanos.ns % frame_delta_time_nanos

BusyWait(elapsed_nanos) == NanosSinceLast(elapsed_nanos) > BUISY_WAIT_TRESHOLD_NANOS

\* the request synthesized when a frame is due
SynthesizedRequest(state, frame_step) == Jump(AsI32(frame_step))

\* = in place of +=
AssignFrameCount(count, frame_step) == frame_step

\* self.frame_count_since_playback_start += frame_step
AdvanceFrameCount(count, frame_step) == WideAdd(count, frame_step)

\* the match on load_request: whether a load is attempted, the calls made on the
\* cache, the cache afterwards and the result of the load
ResolveRequest(cache, request, decoded) ==
    CASE request.kind = "LoadNext" ->
            [attempted |-> TRUE, calls |-> <<Call("load_next", <<>>, 0)>>]
                @@ CacheLoadJump(cache, 1, decoded)
      [] request.kind = "LoadPrevious" ->
            [attempted |-> TRUE, calls |-> <<Call("load_prev", <<>>, 0)>>]
                @@ CacheLoadJump(cache, -1, decoded)
      [] request.kind = "LoadSpecific" ->
            IF PathFileName(request.path) # <<>>
            THEN LET r == CacheLoadSpecific(cache, request.path, decoded)
                 IN  [attempted |-> TRUE,
                      calls |-> <<Call("load_specific", request.path, 0)>>,
                      cache |-> r.cache,
                      result |-> IF r.result.ok
                                 THEN [r.result EXCEPT
                                          !.filename = PathFileName(request.path)[1]]
                                 ELSE r.result]
            ELSE [attempted |-> TRUE, calls |-> <<>>, cache |-> cache, result |-> LoadErr]
      [] request.kind = "Jump" ->
            [attempted |-> TRUE, calls |-> <<Call("load_jump", <<>>, request.count)>>]
                @@ CacheLoadJump(cache, request.count, decoded)
      [] OTHER ->
            [attempted |-> FALSE, calls |-> <<>>, cache |-> cache, result |-> LoadErr]

\* the texture kept when a load fails
TextureKeptOnError(texture, result) == IF result.ok THEN <<result.texture>> ELSE texture

\* self.image_texture after a load
DisplayedTexture(texture, result) == IF result.ok THEN <<result.texture>> ELSE <<>>

\* the titles set after a load; filename.to_str() is None for a name that is not
\* valid Unicode, and unwrapping it panics before the title is set
TitlesSet(state, result) ==
    IF result.ok
    THEN IF state = "Paused" THEN OsStrToStr(result.filename) ELSE <<>>
    ELSE <<"[none]">>

ToStrPanics(state, result) ==
    result.ok /\ state = "Paused" /\ OsStrToStr(result.filename) = <<>>

\* should_sleep left alone after a load
SleepAfterLoad(busy_wait, attempted) == ~busy_wait

\* self.should_sleep when update_image returns
ShouldSleepAtReturn(busy_wait, attempted) == ~busy_wait /\ ~attempted

UpdateImage(prefetched, decoded, stderr_ok) ==
    /\ ~panicked
    /\ LET taken == load_request
           paused == playback_state = "Paused"
           read_clock == EvaluatesClock(playback_state, taken)
           elapsed_nanos == ElapsedNanos(since_playback_start)
           frame_step == FrameStep(elapsed_nanos, frame_count_since_playback_start)
           \* the subtraction overflows (a panic in a build with overflow checks)
           underflow == read_clock /\ frame_step.big < 0
           due == read_clock /\ ~underflow /\ WidePositive(frame_step)
           drains == paused \/ (read_clock /\ ~underflow /\ ~due)
           \* process_prefetched(..).unwrap()
           unwrap_panics == drains /\ ~prefetched
           busy_wait == read_clock /\ ~due /\ BusyWait(elapsed_nanos)
           sends == drains /\ ~unwrap_panics /\ ~busy_wait
           request == IF due THEN SynthesizedRequest(playback_state, frame_step) ELSE taken
           reached == ~underflow /\ ~unwrap_panics
           load == IF reached THEN ResolveRequest(image_cache, request, decoded)
                   ELSE ResolveRequest(image_cache, LoadRequestNone, decoded)
           titles == IF load.attempted THEN TitlesSet(playback_state, load.result) ELSE <<>>
           \* writeln!(stderr, ..).expect(..)
           stderr_panics == load.attempted /\ ~load.result.ok /\ ~stderr_ok
           to_str_panics == load.attempted /\ ToStrPanics(playback_state, load.result)
           returns == reached /\ ~stderr_panics /\ ~to_str_panics
       IN  /\ load_request' = SwapLoadRequest(load_request)
           /\ frame_count_since_playback_start' =
                  IF due THEN AdvanceFrameCount(frame_count_since_playback_start, frame_step)
                  ELSE frame_count_since_playback_start
           /\ image_cache' = load.cache
           /\ image_texture' =
                  IF load.attempted THEN DisplayedTexture(image_texture, load.result)
                  ELSE image_texture
           /\ window_title' = IF titles # <<>> THEN titles[Len(titles)] ELSE window_title
           /\ should_sleep' =
                  IF returns THEN ShouldSleepAtReturn(busy_wait, load.attempted) ELSE TRUE
           /\ panicked' = ~returns
           /\ load_history' =
                  IF load.attempted THEN (IF load.result.ok THEN "ok" ELSE "err")
                  ELSE load_history
           /\ last' = [Tick("update_image", playback_state) EXCEPT
                  !.taken = taken,
                  !.read_clock = read_clock,
                  !.elapsed_nanos = IF read_clock THEN elapsed_nanos ELSE Time(0, 0),
                  !.count_before = frame_count_since_playback_start,
                  !.frame_step = IF read_clock THEN frame_step ELSE WideZero,
                  !.request = IF reached THEN request ELSE LoadRequestNone,
                  !.calls = (IF drains THEN <<Call("process_prefetched", <<>>, 0)>> ELSE <<>>)
                            \o (IF sends THEN <<Call("send_load_requests", <<>>, 0)>> ELSE <<>>)
                            \o load.calls,
                  !.result = IF load.attempted
                             THEN (IF load.result.ok THEN "ok" ELSE "err") ELSE "none",
                  !.texture = IF load.attempted /\ load.result.ok
                              THEN <<load.result.texture>> ELSE <<>>,
                  !.filename = IF load.attempted /\ load.result.ok
                               THEN <<load.result.filename>> ELSE <<>>,
                  !.titles = titles,
                  !.drain_failed = unwrap_panics,
                  !.returned = returns]
           /\ last_requested' = LoadRequestNone
           /\ UNCHANGED <<playback_state, since_playback_start>>

Next ==
    \/ ClockAdvance
    \/ StartPlaybackForward
    \/ PausePlayback
    \/ \E request \in Requests : RequestLoad(request)
    \/ \E size \in 0..MaxDir, readable \in BOOLEAN : UpdateDirectory(size, readable)
    \/ \E prefetched \in BOOLEAN, decoded \in BOOLEAN, stderr_ok \in BOOLEAN :
           UpdateImage(prefetched, decoded, stderr_ok)

Spec == Init /\ [][Next]_vars

(***************************************************************************)
(* Properties.                                                             *)
(***************************************************************************)
\* the state right after a call of update_image, and the calls of a tick that are loads
IsTick == last.op = "update_image"

LoadFns == {"load_next", "load_prev", "load_specific", "load_jump"}

LoadCalls(calls) == SelectSeq(calls, LAMBDA c : c.fn \in LoadFns)

HasCall(calls, f) == \E i \in 1..Len(calls) : calls[i].fn = f

\* the cache operation that matches a request
MatchingCall(request) ==
    CASE request.kind = "LoadNext" -> Call("load_next", <<>>, 0)
      [] request.kind = "LoadPrevious" -> Call("load_prev", <<>>, 0)
      [] request.kind = "LoadSpecific" -> Call("load_specific", request.path, 0)
      [] request.kind = "Jump" -> Call("load_jump", <<>>, request.count)

\* a <= b for wide numbers, and the wide number a having the value of the integer i
WideLeq(a, b) == a.big < b.big \/ (a.big = b.big /\ a.n <= b.n)

WideIs(a, i) == a.big \in {0, 1} /\ i = a.big * BigFrames + a.n

\* floor(elapsed_nanos / 40,000,000) and elapsed_nanos mod 40,000,000
FloorFrames(e) == Wide(e.big, e.ns \div 40000000)

ModFrame(e) == e.ns % 40000000

\* C1: whenever update_image returns, the pending load request is
\* LoadRequest::None, whatever the playback state, the request pending at entry
\* and the outcome of the load; a request is pending afterwards only when
\* request_load set it.
C1_RequestConsumed ==
    /\ [](IsTick /\ last.returned => load_request = LoadRequestNone)
    /\ [][load_request' # LoadRequestNone /\ load_request' # load_request
              => \E request \in Requests : RequestLoad(request)]_vars

C1_Witness ==
    /\ IsTick /\ last.returned
    /\ last.state = "Forward"
    /\ last.taken = LoadPrevious
    /\ last.result = "err"

\* C2: a request pending when update_image starts is resolved in that tick by
\* exactly one call of the matching cache operation, in Paused and in Forward
\* state, and a tick that takes no request performs no load of an explicit request.
C2_ResolvedExactlyOnce ==
    IsTick =>
        /\ last.taken # LoadRequestNone
               => LoadCalls(last.calls) = <<MatchingCall(last.taken)>>
        /\ last.taken = LoadRequestNone /\ last.state = "Paused"
               => LoadCalls(last.calls) = <<>>
        /\ load_request = LoadRequestNone

\* C3: the playback state is Paused initially; start_playback_forward leads to
\* Forward from either state and zeroes the clock and the frame counter;
\* pause_playback leads to Paused; no other step changes the playback state.
C3_PlaybackStateMachine ==
    /\ playback_state = "Paused"
    /\ [][/\ StartPlaybackForward
               => /\ playback_state' = "Forward"
                  /\ since_playback_start' = Time(0, 0)
                  /\ frame_count_since_playback_start' = WideZero
          /\ PausePlayback => playback_state' = "Paused"
          /\ ~StartPlaybackForward /\ ~PausePlayback
               => playback_state' = playback_state]_vars

C3_Witness ==
    /\ playback_state = "Forward"
    /\ since_playback_start = Time(0, 0)
    /\ frame_count_since_playback_start = WideZero
    /\ load_history = "ok"
    /\ load_request # LoadRequestNone

\* C4: the displayed texture is absent exactly when no load has been attempted
\* yet or the most recently attempted load failed; a successful load replaces it
\* by the texture returned, a failed load clears it, and a step that attempts no
\* load leaves it unchanged.
C4_DisplayedTexture ==
    /\ [](image_texture = <<>> <=> load_history \in {"never", "err"})
    /\ [][/\ last'.op = "update_image" /\ last'.result = "ok"
               => image_texture' = last'.texture /\ image_texture' # <<>>
          /\ last'.op = "update_image" /\ last'.result = "err"
               => image_texture' = <<>>
          /\ last'.op # "update_image" \/ last'.result = "none"
               => image_texture' = image_texture]_vars

C4_Witness ==
    /\ IsTick /\ last.result = "err"
    /\ image_texture = <<>>
    /\ load_history = "err"
    /\ window_title = "[none]"
    /\ image_cache.size > 0

\* C5: when update_image returns, should_sleep is false if and only if a load
\* was attempted in the tick, or the tick ran in Forward state with no request
\* and no frame due and more than 80% of the frame interval had elapsed since
\* the last frame boundary.
C5_ShouldSleep ==
    IsTick /\ last.returned =>
        (should_sleep = FALSE
            <=> \/ last.result # "none"
                \/ /\ last.state = "Forward"
                   /\ last.taken = LoadRequestNone
                   /\ FloorFrames(last.elapsed_nanos) = last.count_before
                   /\ 5 * ModFrame(last.elapsed_nanos) > 4 * 40000000)

C5_Witness ==
    /\ IsTick /\ last.returned
    /\ last.state = "Forward"
    /\ last.result = "none"
    /\ should_sleep = FALSE

\* C6: a failed load never panics or stops the manager: update_image returns
\* with the displayed texture absent, the title "[none]" and should_sleep false,
\* and the failed request is not pending again.
C6_FailedLoadHandled ==
    IsTick /\ last.result = "err" =>
        /\ last.returned
        /\ ~panicked
        /\ image_texture = <<>>
        /\ window_title = "[none]"
        /\ should_sleep = FALSE
        /\ load_request = LoadRequestNone

\* C7: in a Forward tick with no pending request, frame_step is
\* floor(elapsed_nanos / 40,000,000) minus the frame counter; when it is positive
\* the tick synthesizes exactly Jump(frame_step) and adds frame_step to the
\* counter, which then equals floor(elapsed_nanos / 40,000,000).
C7_FrameStep ==
    IsTick /\ last.returned /\ last.state = "Forward" /\ last.taken = LoadRequestNone =>
        /\ last.read_clock
        /\ WideAdd(last.count_before, last.frame_step) = FloorFrames(last.elapsed_nanos)
        /\ WidePositive(last.frame_step) =>
               /\ last.request.kind = "Jump"
               /\ WideIs(last.frame_step, last.request.count)
               /\ LoadCalls(last.calls) = <<Call("load_jump", <<>>, last.request.count)>>
               /\ frame_count_since_playback_start = FloorFrames(last.elapsed_nanos)
        /\ ~WidePositive(last.frame_step) =>
               /\ last.request = LoadRequestNone
               /\ frame_count_since_playback_start = last.count_before

\* C8: frame_count_since_playback_start never decreases between two calls of
\* start_playback_forward, and it is zero right after every start_playback_forward.
C8_FrameCountMonotonic ==
    [][/\ StartPlaybackForward => frame_count_since_playback_start' = WideZero
       /\ ~StartPlaybackForward
            => WideLeq(frame_count_since_playback_start, frame_count_since_playback_start')]_vars

C8_Witness ==
    /\ IsTick /\ last.returned
    /\ last.count_before = Wide(0, 1)
    /\ frame_count_since_playback_start = Wide(0, 2)

\* C9: in a Forward tick with no pending request and no frame due, prefetched
\* results are drained first; then, more than 32,000,000 ns after the last frame
\* boundary the tick sets should_sleep to false and issues no prefetch requests,
\* and otherwise (32,000,000 ns included) it issues prefetch requests and
\* should_sleep stays true.
C9_BusyWaitThreshold ==
    ( /\ IsTick /\ last.state = "Forward" /\ last.taken = LoadRequestNone
      /\ FloorFrames(last.elapsed_nanos) = last.count_before ) =>
        /\ last.calls # <<>> /\ last.calls[1].fn = "process_prefetched"
        /\ LoadCalls(last.calls) = <<>>
        /\ IF ModFrame(last.elapsed_nanos) > 32000000
           THEN should_sleep = FALSE /\ ~HasCall(last.calls, "send_load_requests")
           ELSE should_sleep = TRUE /\ HasCall(last.calls, "send_load_requests")

\* C10: no tick executed in Forward state sets the window title, whatever
\* request it resolves and whatever the outcome.
C10_NoTitleWhilePlaying ==
    IsTick /\ last.returned /\ last.state = "Forward" => last.titles = <<>>

\* C11: in Paused state every successful load sets the window title to the
\* filename returned with the texture (for LoadSpecific the file-name component
\* of the requested path), and update_image returns with that title.
C11_TitleNamesImage ==
    IsTick /\ last.state = "Paused" /\ last.result = "ok" =>
        /\ last.returned
        /\ window_title = last.filename[1]
        /\ last.titles = <<last.filename[1]>>
        /\ last.taken.kind = "LoadSpecific"
               => <<last.filename[1]>> = PathFileName(last.taken.path)

\* C12: a LoadSpecific request whose path has no file-name component fails
\* without touching the cache: no load operation of the cache is invoked, the
\* cache is unchanged, and the tick ends on the failure path, with the texture
\* cleared, the title "[none]" and should_sleep false.
C12_NoFileNameFails ==
    /\ [](IsTick /\ last.taken.kind = "LoadSpecific" /\ PathFileName(last.taken.path) = <<>>
            => /\ LoadCalls(last.calls) = <<>>
               /\ last.result = "err"
               /\ last.returned
               /\ image_texture = <<>>
               /\ window_title = "[none]"
               /\ should_sleep = FALSE)
    /\ [][( /\ last'.op = "update_image"
             /\ last'.taken.kind = "LoadSpecific"
             /\ PathFileName(last'.taken.path) = <<>> )
            => image_cache' = image_cache]_vars

(***************************************************************************)
(* Forward playback over an unchanged directory with no explicit requests: *)
(* start_playback_forward has just been called with the cache at position  *)
(* p0 of a directory of D >= 1 files (p0 > 0 after loads made in Forward   *)
(* state), and from then on only time passes and update_image is called.   *)
(***************************************************************************)
MaxRunDir == 3

PlaybackInit ==
    /\ playback_state = "Forward"
    /\ since_playback_start = Time(0, 0)
    /\ frame_count_since_playback_start = WideZero
    /\ load_request = LoadRequestNone
    /\ last_requested = LoadRequestNone
    /\ image_cache \in {Cache(D, p0) : D \in 1..MaxRunDir, p0 \in 0..(MaxRunDir - 1)}
    /\ image_cache.current < image_cache.size
    /\ window_title = ""
    /\ panicked = FALSE
    /\ last = NoTick
    /\ IF image_cache.current = 0
       THEN should_sleep = TRUE /\ image_texture = <<>> /\ load_history = "never"
       ELSE /\ should_sleep = FALSE
            /\ image_texture = <<FileNameAt(image_cache.current + 1)>>
            /\ load_history = "ok"

PlaybackNext ==
    \/ ClockAdvance
    \/ \E prefetched \in BOOLEAN, decoded \in BOOLEAN, stderr_ok \in BOOLEAN :
           UpdateImage(prefetched, decoded, stderr_ok)

PlaybackSpec == PlaybackInit /\ [][PlaybackNext]_vars

\* a wide number modulo a small positive integer
WideMod(a, d) == (a.big * (BigFrames % d) + a.n) % d

\* C13: during forward playback over an unchanged directory of D >= 1 files
\* with no explicit requests, the position follows the frame counter: the counter
\* starts at zero, and every step, a tick that returns included, moves the
\* position by as many places, modulo D, as it adds to the counter, so that
\* after every tick the position is (p0 + frame_count_since_playback_start) mod D.
C13_PositionFollowsFrames ==
    /\ frame_count_since_playback_start = WideZero
    /\ [][last'.returned =>
            /\ image_cache'.size = image_cache.size
            /\ image_cache'.current =
                   ( image_cache.current
                     + WideMod(WideSub(frame_count_since_playback_start',
                                       frame_count_since_playback_start),
                               image_cache.size) ) % image_cache.size]_vars

\* C14: every tick executed in Paused state drains prefetched results and then
\* issues prefetch requests, in that order and before the pending request is
\* resolved, and skips the clock logic: the clock is not read, playback_start_time
\* and the frame counter are unchanged and no Jump is synthesized; with no
\* pending request the tick performs no load and returns should_sleep = true.
C14_PausedTick ==
    /\ [](IsTick /\ last.state = "Paused" =>
            /\ Len(last.calls) >= 2
            /\ last.calls[1].fn = "process_prefetched"
            /\ last.calls[2].fn = "send_load_requests"
            /\ LoadCalls(last.calls) = SubSeq(last.calls, 3, Len(last.calls))
            /\ ~last.read_clock
            /\ last.request = last.taken
            /\ frame_count_since_playback_start = last.count_before
            /\ last.taken = LoadRequestNone =>
                   /\ last.result = "none"
                   /\ last.returned
                   /\ should_sleep = TRUE)
    /\ [][last'.op = "update_image" /\ last'.state = "Paused" =>
            since_playback_start' = since_playback_start]_vars

\* C15: a tick executed in Forward state with an explicit request pending
\* resolves only that request: it does not read the clock, leaves the frame
\* counter unchanged, synthesizes no Jump and neither drains prefetched results
\* nor issues prefetch requests; the frame intervals elapsed meanwhile are in the
\* frame_step of the next Forward tick that has no pending request, which is
\* floor(elapsed_nanos / 40,000,000) minus the counter that the tick left alone.
C15_ExplicitRequestInForward ==
    /\ [](IsTick /\ last.state = "Forward" /\ last.taken # LoadRequestNone =>
            /\ ~last.read_clock
            /\ last.request = last.taken
            /\ frame_count_since_playback_start = last.count_before
            /\ ~HasCall(last.calls, "process_prefetched")
            /\ ~HasCall(last.calls, "send_load_requests")
            /\ last.calls = LoadCalls(last.calls) /\ Len(last.calls) <= 1)
    /\ [](IsTick /\ last.state = "Forward" /\ last.taken = LoadRequestNone =>
            /\ last.read_clock
            /\ WideAdd(last.count_before, last.frame_step)
                   = FloorFrames(last.elapsed_nanos))
    /\ [][last'.op = "update_image" /\ last'.state = "Forward"
              /\ last'.taken # LoadRequestNone =>
            /\ since_playback_start' = since_playback_start
            /\ frame_count_since_playback_start' = frame_count_since_playback_start]_vars

C15_Witness ==
    /\ IsTick /\ last.returned
    /\ last.state = "Forward"
    /\ last.taken = LoadNext
    /\ last.result = "ok"
    /\ since_playback_start = Time(0, MaxNanos)
    /\ frame_count_since_playback_start = WideZero

\* C16: a failure of the prefetch drain is isolated: when process_prefetched
\* returns an error in a tick, update_image still completes, resolves the request
\* taken in that tick by the matching cache operation, and the manager keeps
\* ticking.
C16_DrainFailureIsolated ==
    IsTick /\ last.drain_failed =>
        /\ last.returned
        /\ ~panicked
        /\ last.taken # LoadRequestNone
               => LoadCalls(last.calls) = <<MatchingCall(last.taken)>>

C18_NoUnderflow ==
    /\ WideLeq(frame_count_since_playback_start,
               FloorFrames(ElapsedNanos(since_playback_start)))
    /\ IsTick /\ last.read_clock =>
           /\ WideLeq(last.count_before, FloorFrames(last.elapsed_nanos))
           /\ last.frame_step.big >= 0 /\ last.frame_step.n >= 0

C18_Witness ==
    /\ IsTick /\ last.returned /\ last.read_clock
    /\ last.count_before = Wide(0, 1)
    /\ last.elapsed_nanos = Time(0, 40000000)
    /\ last.frame_step = WideZero

\* C19: the offset of every synthesized Jump is strictly positive and equal to
\* frame_step: the conversion of the 64-bit unsigned frame_step to the 32-bit
\* signed offset changes neither its value nor its sign, whatever the gap between
\* two ticks that evaluate the clock.
C19_JumpOffsetIsFrameStep ==
    IsTick /\ last.read_clock /\ last.request.kind = "Jump" =>
        /\ WidePositive(last.frame_step)
        /\ last.request.count > 0
        /\ WideIs(last.frame_step, last.request.count)

\* C20: time spent paused or in an earlier playback run is never replayed:
\* start_playback_forward, from either state, restarts the clock and zeroes the
\* frame counter, and the first Jump synthesized after it (the counter is still
\* zero) has the offset floor(t / 40,000,000), t being the time elapsed since that
\* start only.
C20_NoReplayAfterRestart ==
    /\ [][StartPlaybackForward =>
            /\ since_playback_start' = Time(0, 0)
            /\ frame_count_since_playback_start' = WideZero]_vars
    /\ [][last'.op = "update_image" /\ last'.read_clock =>
            last'.elapsed_nanos = ElapsedNanos(since_playback_start)]_vars
    /\ [](( /\ IsTick /\ last.read_clock
            /\ last.count_before = WideZero
            /\ WidePositive(FloorFrames(last.elapsed_nanos)) ) =>
               /\ last.request.kind = "Jump"
               /\ WideIs(FloorFrames(last.elapsed_nanos), last.request.count))

====
